---- MODULE Spec2Model ----
(***************************************************************************)
(* Training orchestration of medical_image_classification: the three      *)
(* training plans                                                         *)
(*   A  trainA.py   stochastic weight averaging (SWA) + early stopping     *)
(*   B  trainB.py   sharpness-aware minimization (SAM)                     *)
(*   C  train_c.py  warmup+cosine baseline                                 *)
(* as one state machine.  A state is a position (pc) in train() or in the  *)
(* eval() it calls, together with the objects train() owns.  Tensors are   *)
(* abstracted to what the orchestration decides about them:                *)
(*   p.data  [ver, pert]  ver  = number of optimizer updates applied,      *)
(*                        pert = number of SAM perturbations e_w added and *)
(*                               not undone                                *)
(*   p.grad  NoGrad (None), or [src, clipped]: src = the backward passes   *)
(*           <<iteration, pass>> accumulated into it, clipped = whether    *)
(*           clip_grad_norm_ has bounded its norm since the last backward  *)
(* The opaque collaborators (model, loss, estimator, frozen encoder) are   *)
(* nondeterministic: a validation pass yields any indicator of Indicators  *)
(* and any batch of it may raise.                                          *)
(***************************************************************************)
EXTENDS Integers, Sequences, FiniteSets, TLC

\* ------------------------------------------------------------- bounds
MaxEpochs == 3
MaxBatches == 2
MaxValBatches == 1
MaxPatience == 2
MaxInterval == 2
MaxStepCalls == 1
MaxWarmup == 2

\* ---------------------------------------------------------- constants
\* torch.no_grad() loop of the SWA batch-norm recalibration: "if i >= 100: break"
BNUpdateBatches == 100

\* values val_scores[cfg.train.indicator] may take (scaled to integers):
\* below, at and above the initial max_indicator
Indicators == {0 - 1, 0, 1, 2}

\* model.named_parameters(): one backbone and one head parameter that take
\* part in the forward pass, and one trainable parameter that does not
\* (its grad stays None)
Params == {"cnn_backbone.w", "head.w", "head.aux"}
InGraph == {"cnn_backbone.w", "head.w"}

Models == {"model", "swa_model"}
NoGrad == [none |-> TRUE]
NoSnap == [none |-> TRUE]
NoFile == [none |-> TRUE]
Unbound == [none |-> TRUE]
FileNames == {"best_validation_weights.pt", "final_weights.pt",
              "swa_model_final_weights.pt", "checkpoint.pt"}
Raisers == {"frozen_encoder", "model", "loss_function", "estimator"}

\* the names initialize_optimizer and initialize_loss of plans A and C accept
SupportedOptimizers == {"SGD", "ADAM", "ADAMW"}
SupportedCriteria == {"cross_entropy", "mean_square_error",
                      "mean_absolute_error", "smooth_L1", "kappa_loss",
                      "focal_loss"}
\* cfg.solver.optimizer / cfg.train.criterion as configured: accepted names
\* and one name no plan implements
OptimizerNames == {"ADAMW", "SGD", "RMSPROP"}
CriterionNames == {"cross_entropy", "kappa_loss", "hinge_loss"}
\* cfg.base.checkpoint: not set, or a path
CheckpointPaths == {"none", "checkpoint.pt"}

VARIABLES
    cfg,               \* the resolved configuration (never changes)
    pc,                \* position in train() / eval()
    epoch, step,       \* loop variables of train()
    iter,              \* number of training iterations started in this run
    data, grad,        \* per parameter: p.data, p.grad
    old_p,             \* SAM: optimizer.state[p]["old_p"]
    optSteps,          \* updates applied by the (base) optimizer
    sched,             \* [main, swa]: steps of main_scheduler / swa_scheduler
    swa,               \* the AveragedModel: [n_averaged, avg_of, bnFresh]
    training,          \* module.training of model and swa_model
    gradEnabled,       \* torch.is_grad_enabled()
    evalModel, valStep,\* eval(): the model under evaluation, batches done
    evalEntry,         \* eval() entry: optimizer state, model mode, grad flag
    estimator,         \* contributions since the last estimator.reset()
    train_scores,      \* train(): estimator.get_scores() of the training pass
    history,           \* the four per-epoch series
    max_indicator, epochs_no_improve,
    val_loss,          \* plan C: the local val_loss of train()
    files,             \* the save directory
    iterStats,         \* this iteration: forward, backward, update counts
    epochStats,        \* this epoch: [swaUpd, mainSched, swaSched, optSteps]
    samCalls,          \* this iteration's first_step/second_step calls
    stepCalls,         \* calls of SAM.step() so far
    exc,               \* the exception that ended the run, or "none"
    start_epoch,       \* train(): the first epoch of this run
    lr,                \* param_group["lr"] as a factor of the group's base rate
    checkpoint,        \* the file at cfg.base.checkpoint
    saved              \* model and optimizer as they were when it was saved

vars == <<cfg, pc, epoch, step, iter, data, grad, old_p, optSteps, sched, swa,
          training, gradEnabled, evalModel, valStep, evalEntry, estimator,
          train_scores, history, max_indicator, epochs_no_improve, val_loss,
          files,
          iterStats, epochStats, samCalls, stepCalls, exc, start_epoch, lr,
          checkpoint, saved>>

\* ------------------------------------------------------ configurations
ConfigsA == [regime : {"A"}, epochs : 1..MaxEpochs, phase_start : 0..MaxEpochs,
             patience : 1..MaxPatience, nTrain : 0..MaxBatches,
             nVal : 0..MaxValBatches, eval_interval : {1}, save_interval : {1},
             modelModeIn : BOOLEAN, optimizer : {"ADAMW"},
             criterion : {"cross_entropy"}, checkpoint : {"none"},
             warmup_epochs : {1}, backbone_named : {TRUE}]
ConfigsB == [regime : {"B"}, epochs : 1..MaxEpochs, phase_start : 0..MaxEpochs,
             patience : {1}, nTrain : 0..MaxBatches,
             nVal : 0..MaxValBatches, eval_interval : {1}, save_interval : {1},
             modelModeIn : {TRUE}, optimizer : {"ADAMW"},
             criterion : {"cross_entropy"}, checkpoint : {"none"},
             warmup_epochs : {1}, backbone_named : {TRUE}]
ConfigsC == [regime : {"C"}, epochs : 1..MaxEpochs, phase_start : {0},
             patience : {1}, nTrain : 0..MaxBatches,
             nVal : 0..MaxValBatches, eval_interval : 1..MaxInterval,
             save_interval : 1..MaxInterval, modelModeIn : {TRUE},
             optimizer : {"ADAMW"}, criterion : {"cross_entropy"},
             checkpoint : {"none"}, warmup_epochs : {1},
             backbone_named : {TRUE}]
Configs == ConfigsA \cup ConfigsB \cup ConfigsC

\* ------------------------------------------------------------ helpers
\* the two parameter groups train() hands to the optimizer: the trainable
\* parameters whose name contains 'cnn_backbone', and the other trainable
\* parameters; cfg.backbone_named says whether the model's backbone
\* parameter carries that name
ParamGroups ==
    <<IF cfg.backbone_named THEN {"cnn_backbone.w"} ELSE {},
      IF cfg.backbone_named THEN {"head.w", "head.aux"} ELSE Params>>

HasGrad(g, p) == g[p] # NoGrad

\* optimizer.zero_grad(): every gradient becomes None
ZeroGrad(g) == [p \in Params |-> NoGrad]

\* loss.backward(): accumulates the pass into the gradient of every parameter
\* of the graph; the result is a fresh, unclipped gradient
Backward(g, tag) ==
    [p \in Params |->
        IF p \in InGraph
        THEN [src |-> (IF HasGrad(g, p) THEN g[p].src ELSE {}) \cup {tag},
              clipped |-> FALSE]
        ELSE g[p]]

\* nn.utils.clip_grad_norm_(model.parameters(), 1.0): scales every existing
\* gradient so that the global norm is at most 1
ClipGradNorm(g) ==
    [p \in Params |-> IF HasGrad(g, p) THEN [g[p] EXCEPT !.clipped = TRUE]
                                       ELSE g[p]]

\* optimizer.step() of the base optimizer: updates every parameter that has a
\* gradient, in place
OptimizerStep(d, g) ==
    [p \in Params |-> IF HasGrad(g, p) THEN [d[p] EXCEPT !.ver = @ + 1]
                                       ELSE d[p]]

\* the optimizer: the per-parameter state of the (base) optimizer, which
\* grows with every update it applies, SAM's own per-parameter state, and the
\* learning rate of the parameter groups
OptimizerState == [steps |-> optSteps, old_p |-> old_p, lr |-> lr]

\* param_group["lr"] as the optimizer is constructed
BaseLr == [branch |-> "base", num |-> 1, den |-> 1]

\* what eval() finds when it is entered
EntryState(m) == [opt |-> OptimizerState, training |-> training[m],
                  grad |-> gradEnabled]

NewIterStats == [fwd |-> 0, bwd |-> 0, upd |-> 0]
NewEpochStats == [swaUpd |-> 0, mainSched |-> 0, swaSched |-> 0, optSteps |-> 0]
NewHistory == [train_loss |-> <<>>, train_acc |-> <<>>,
               val_loss |-> <<>>, val_acc |-> <<>>]

\* the exception leaves train(): nothing is restored on the way out
Raise(name) == /\ pc' = "raised"
               /\ exc' = name

\* --------------------------------------------------------------- Init
InitRun ==
    /\ pc = "entry"
    /\ epoch = 0 /\ step = 0 /\ iter = 0
    /\ data = [p \in Params |-> [ver |-> 0, pert |-> 0]]
    /\ grad = [p \in Params |-> NoGrad]
    /\ old_p = [p \in Params |-> NoSnap]
    /\ optSteps = 0
    /\ sched = [main |-> 0, swa |-> 0]
    /\ swa = [n_averaged |-> 0, avg_of |-> {}, bnFresh |-> TRUE]
    /\ training = [m \in Models |-> cfg.modelModeIn]
    /\ gradEnabled = TRUE
    /\ lr = BaseLr
    /\ evalModel = "model" /\ valStep = 0
    /\ evalEntry = EntryState("model")
    /\ estimator = {}
    /\ train_scores = {}
    /\ history = NewHistory
    /\ max_indicator = 0 /\ epochs_no_improve = 0
    /\ val_loss = Unbound
    /\ files = [f \in FileNames |-> NoFile]
    /\ iterStats = NewIterStats
    /\ epochStats = NewEpochStats
    /\ samCalls = <<>>
    /\ stepCalls = 0
    /\ exc = "none"
    /\ start_epoch = 0
    /\ checkpoint = NoFile
    /\ saved = NoFile

Init == cfg \in Configs /\ InitRun

\* ------------------------------------------------- unchanged groups
loopVars == <<epoch, step, iter>>
optVars == <<data, grad, old_p, optSteps, sched>>
modeVars == <<training, gradEnabled>>
evalVars == <<evalModel, valStep, evalEntry>>
trackVars == <<history, max_indicator, epochs_no_improve, val_loss, files>>
resumeVars == <<start_epoch, checkpoint, saved>>
runVars == <<resumeVars, lr>>

\* ---------------------------------------------------- set-up of train()
\* initialize_optimizer: plans A and C raise on a name they do not know; plan
\* B builds SAM over AdamW whatever cfg.solver.optimizer says
InitializeOptimizer ==
    IF cfg.regime # "B" /\ cfg.optimizer \notin SupportedOptimizers
    THEN "NotImplementedError" ELSE "none"

\* initialize_loss: plan B knows cross_entropy only
InitializeLoss ==
    IF cfg.criterion \in (IF cfg.regime = "B" THEN {"cross_entropy"}
                                              ELSE SupportedCriteria)
    THEN "none" ELSE "NotImplementedError"

\* plan A: OneCycleLR(total_steps=len(train_loader) * cfg.train.epochs) raises
\* unless total_steps is positive
OneCycleLR ==
    IF cfg.regime = "A" /\ cfg.nTrain * cfg.epochs <= 0
    THEN "ValueError" ELSE "none"

\* the first failure of the set-up, in the order of its calls
SetupError ==
    IF InitializeOptimizer # "none" THEN InitializeOptimizer
    ELSE IF InitializeLoss # "none" THEN InitializeLoss
    ELSE OneCycleLR

\* optimizer.state_dict(): self.state and self.param_groups of the optimizer
\* object.  The state of SAM is old_p; the state of the optimizer SAM wraps
\* is kept by base_optimizer and is not part of it
StateDict(o) ==
    [state |-> IF cfg.regime = "B" THEN o.old_p ELSE o.steps, lr |-> o.lr]

\* optimizer.load_state_dict(sd); SAM.load_state_dict re-links param_groups
LoadStateDict(o, sd) ==
    IF cfg.regime = "B" THEN [o EXCEPT !.old_p = sd.state, !.lr = sd.lr]
                        ELSE [o EXCEPT !.steps = sd.state, !.lr = sd.lr]

\* faulty variant: a missing checkpoint is skipped and the run starts afresh
ResumeSkipsMissing(file, d, o) ==
    IF file # NoFile
    THEN [exc |-> "none", start_epoch |-> file.epoch + 1,
          data |-> file.state_dict, opt |-> LoadStateDict(o, file.optimizer)]
    ELSE [exc |-> "none", start_epoch |-> 0, data |-> d, opt |-> o]

\* resume(cfg, model, optimizer) on the file at cfg.base.checkpoint: what it
\* raises, what it returns, and the model and optimizer it leaves
Resume(file, d, o) ==
    IF file # NoFile
    THEN [exc |-> "none", start_epoch |-> file.epoch + 1,
          data |-> file.state_dict, opt |-> LoadStateDict(o, file.optimizer)]
    ELSE [exc |-> "FileNotFoundError", start_epoch |-> 0, data |-> d,
          opt |-> o]

\* the schedulers of plan A set the learning rate of the groups: OneCycleLR
\* by its step count out of total_steps, SWALR by its step count
OneCycleRate(k) == [branch |-> "onecycle", num |-> k,
                  den |-> cfg.nTrain * cfg.epochs]
SwaRate(k) == [branch |-> "swalr", num |-> k, den |-> 1]

\* the optimizer as the set-up has built it when it comes to resume: in plan
\* A the construction of OneCycleLR has set the initial rate
BuiltOptimizer ==
    [OptimizerState EXCEPT !.lr = IF cfg.regime = "A" THEN OneCycleRate(0)
                                                      ELSE @]

\* "start_epoch = 0; if cfg.base.checkpoint: start_epoch = resume(...)"
StartRun ==
    IF cfg.checkpoint = "none"
    THEN [exc |-> "none", start_epoch |-> 0, data |-> data,
          opt |-> BuiltOptimizer]
    ELSE Resume(checkpoint, data, BuiltOptimizer)

\* trainB.adjust_learning_rate(cfg, optimizer, epoch): the factor lr_scale
\* every group's base rate is multiplied by; "warmup" is num / den, "cosine"
\* is 0.5 * (1 + cos(pi * num / den))
AdjustLearningRateB(e) ==
    IF e < cfg.warmup_epochs
    THEN [branch |-> "warmup", num |-> e + 1, den |-> cfg.warmup_epochs]
    ELSE [branch |-> "cosine", num |-> e - cfg.warmup_epochs,
          den |-> cfg.epochs - cfg.warmup_epochs]

\* train_c.adjust_learning_rate(cfg, optimizer, epoch + step / n), the
\* fractional epoch being (e * n + st) / n
AdjustLearningRateC(e, st, n) ==
    IF e * n + st < cfg.warmup_epochs * n
    THEN [branch |-> "warmup", num |-> e * n + st,
          den |-> n * cfg.warmup_epochs]
    ELSE [branch |-> "cosine", num |-> e * n + st - cfg.warmup_epochs * n,
          den |-> (cfg.epochs - cfg.warmup_epochs) * n]

\* the set-up up to "model.train()": it fails in SetupError or in resume, or
\* enters the epoch loop at start_epoch
Setup(head) ==
    IF SetupError # "none"
    THEN /\ Raise(SetupError)
         /\ UNCHANGED <<epoch, data, old_p, optSteps, lr, training,
                        start_epoch>>
    ELSE /\ data' = StartRun.data
         /\ old_p' = StartRun.opt.old_p
         /\ optSteps' = StartRun.opt.steps
         /\ lr' = StartRun.opt.lr
         /\ start_epoch' = StartRun.start_epoch
         /\ epoch' = StartRun.start_epoch
         /\ IF StartRun.exc # "none"
            THEN /\ Raise(StartRun.exc)
                 /\ UNCHANGED training
            ELSE /\ training' = [training EXCEPT !["model"] = TRUE]
                 /\ pc' = head
                 /\ exc' = exc
statVars == <<iterStats, epochStats, samCalls>>

\* ======================================================= plan A (SWA)
\* swa_model.update_parameters(model): the first call copies the parameters
\* of model, later calls average them in; batch-norm buffers are not touched
UpdateParameters(s, ver) ==
    [n_averaged |-> s.n_averaged + 1,
     avg_of |-> IF s.n_averaged = 0 THEN {ver} ELSE s.avg_of \cup {ver},
     bnFresh |-> FALSE]

\* a forward pass of swa_model: in train() mode it recomputes the batch-norm
\* statistics from the batch
SwaForward(s, mode) == [s EXCEPT !.bnFresh = @ \/ mode]

\* save_weights(cfg, model, name) of the live model
ModelWeights == [of |-> "model", epoch |-> epoch, ver |-> optSteps]

\* AveragedModel(model) copies the model before resume() loads into it
A_Setup ==
    /\ pc = "entry" /\ cfg.regime = "A"
    /\ Setup("A_epoch_head")
    /\ swa' = IF SetupError # "none" THEN swa
              ELSE [n_averaged |-> 0, avg_of |-> {0}, bnFresh |-> TRUE]
    /\ UNCHANGED <<cfg, train_scores,
                   checkpoint, saved, step, iter, grad, sched,
                   gradEnabled, evalVars, estimator, trackVars, statVars,
                   stepCalls>>

A_EpochHead ==
    /\ pc = "A_epoch_head"
    /\ IF epoch < cfg.epochs
       THEN /\ estimator' = {}
            /\ step' = 0
            /\ epochStats' = NewEpochStats
            /\ pc' = "A_batch"
       ELSE /\ pc' = "A_finalize"
            /\ UNCHANGED <<estimator, step, epochStats>>
    /\ UNCHANGED <<cfg, train_scores,
                   runVars, epoch, iter, optVars, swa, modeVars, evalVars,
                   trackVars, iterStats, samCalls, stepCalls, exc>>

A_Forward ==
    /\ pc = "A_batch" /\ step < cfg.nTrain
    /\ iter' = iter + 1
    /\ iterStats' = [NewIterStats EXCEPT !.fwd = 1]
    /\ pc' = "A_zero_grad"
    /\ UNCHANGED <<cfg, train_scores,
                   runVars, epoch, step, optVars, swa, modeVars, evalVars,
                   estimator, trackVars, epochStats, samCalls, stepCalls, exc>>

A_ZeroGrad ==
    /\ pc = "A_zero_grad"
    /\ grad' = ZeroGrad(grad)
    /\ pc' = "A_backward"
    /\ UNCHANGED <<cfg, train_scores, runVars,
                   loopVars, data, old_p, optSteps, sched, swa, modeVars,
                   evalVars, estimator, trackVars, statVars, stepCalls, exc>>

A_Backward ==
    /\ pc = "A_backward"
    /\ grad' = Backward(grad, <<iter, 1>>)
    /\ iterStats' = [iterStats EXCEPT !.bwd = @ + 1]
    /\ pc' = "A_clip"
    /\ UNCHANGED <<cfg, train_scores, runVars,
                   loopVars, data, old_p, optSteps, sched, swa, modeVars,
                   evalVars, estimator, trackVars, epochStats, samCalls,
                   stepCalls, exc>>

A_Clip ==
    /\ pc = "A_clip"
    /\ grad' = ClipGradNorm(grad)
    /\ pc' = "A_opt_step"
    /\ UNCHANGED <<cfg, train_scores, runVars,
                   loopVars, data, old_p, optSteps, sched, swa, modeVars,
                   evalVars, estimator, trackVars, statVars, stepCalls, exc>>

A_OptStep ==
    /\ pc = "A_opt_step"
    /\ data' = OptimizerStep(data, grad)
    /\ optSteps' = optSteps + 1
    /\ iterStats' = [iterStats EXCEPT !.upd = @ + 1]
    /\ epochStats' = [epochStats EXCEPT !.optSteps = @ + 1]
    /\ pc' = "A_post_step"
    /\ UNCHANGED <<cfg, train_scores, runVars,
                   loopVars, grad, old_p, sched, swa, modeVars, evalVars,
                   estimator, trackVars, samCalls, stepCalls, exc>>

\* "if epoch < swa_start_epoch: main_scheduler.step()"
MainSchedulerActive == epoch < cfg.phase_start

A_PostStep ==
    /\ pc = "A_post_step"
    /\ IF MainSchedulerActive
       THEN /\ sched' = [sched EXCEPT !.main = @ + 1]
            /\ lr' = OneCycleRate(sched.main + 1)
            /\ epochStats' = [epochStats EXCEPT !.mainSched = @ + 1]
       ELSE UNCHANGED <<sched, lr, epochStats>>
    /\ estimator' = estimator \cup {<<"train", epoch>>}
    /\ step' = step + 1
    /\ pc' = "A_batch"
    /\ UNCHANGED <<cfg, train_scores, resumeVars,
                   epoch, iter, data, grad, old_p, optSteps, swa,
                   modeVars, evalVars, trackVars, iterStats, samCalls,
                   stepCalls, exc>>

\* faulty variant: averaging starts one epoch late
SwaPhaseOffByOne == epoch > cfg.phase_start

\* "if epoch >= swa_start_epoch:" of the end of the epoch
SwaPhase == epoch >= cfg.phase_start

\* "eval_model = swa_model if epoch >= swa_start_epoch else model"
EvalModelA == IF epoch >= cfg.phase_start THEN "swa_model" ELSE "model"

A_EpochTail ==
    /\ pc = "A_batch" /\ step = cfg.nTrain
    /\ IF SwaPhase
       THEN /\ swa' = UpdateParameters(swa, optSteps)
            /\ sched' = [sched EXCEPT !.swa = @ + 1]
            /\ lr' = SwaRate(sched.swa + 1)
            /\ epochStats' = [epochStats EXCEPT !.swaUpd = @ + 1,
                                                !.swaSched = @ + 1]
       ELSE UNCHANGED <<swa, sched, lr, epochStats>>
    /\ IF cfg.nTrain = 0
       THEN /\ Raise("ZeroDivisionError")
            /\ UNCHANGED <<history, evalModel, train_scores>>
       ELSE /\ train_scores' = estimator
            /\ history' = [history EXCEPT
                             !.train_loss = Append(@, <<"train", epoch>>),
                             !.train_acc = Append(@, estimator)]
            /\ evalModel' = EvalModelA
            /\ pc' = "eval_begin"
            /\ exc' = exc
    /\ UNCHANGED <<cfg, resumeVars,
                   loopVars, data, grad, old_p, optSteps, modeVars,
                   valStep, evalEntry, estimator, max_indicator,
                   epochs_no_improve, val_loss, files, iterStats, samCalls,
                   stepCalls>>

\* faulty variant: a tie with the best indicator counts as an improvement
ImprovesOnTie(ind, best) == ind >= best

\* "if indicator > max_indicator:"
Improves(ind, best) == ind > best

\* "if epochs_no_improve >= patience: break"
EarlyStop(stall, patience) == stall >= patience

A_AfterEval ==
    /\ pc = "after_eval" /\ cfg.regime = "A"
    /\ \E ind \in Indicators :
         /\ history' = [history EXCEPT !.val_loss = Append(@, <<"val", epoch>>),
                                       !.val_acc = Append(@, ind)]
         /\ IF Improves(ind, max_indicator)
            THEN /\ max_indicator' = ind
                 /\ epochs_no_improve' = 0
                 /\ files' = [files EXCEPT
                                !["best_validation_weights.pt"] = ModelWeights]
            ELSE /\ epochs_no_improve' = epochs_no_improve + 1
                 /\ UNCHANGED <<max_indicator, files>>
    /\ IF EarlyStop(epochs_no_improve', cfg.patience)
       THEN /\ pc' = "A_finalize"
            /\ epoch' = epoch
       ELSE /\ pc' = "A_epoch_head"
            /\ epoch' = epoch + 1
    /\ UNCHANGED <<cfg, train_scores,
                   runVars, step, iter, optVars, swa, modeVars, evalVars,
                   estimator, val_loss, statVars, stepCalls, exc>>

A_FinalizeBegin ==
    /\ pc = "A_finalize"
    /\ training' = [training EXCEPT !["swa_model"] = TRUE]
    /\ gradEnabled' = FALSE
    /\ step' = 0
    /\ pc' = "A_bn_batch"
    /\ UNCHANGED <<cfg, train_scores, runVars,
                   epoch, iter, optVars, swa, evalVars, estimator,
                   trackVars, statVars, stepCalls, exc>>

A_BNBatch ==
    /\ pc = "A_bn_batch"
    /\ step < cfg.nTrain /\ step < BNUpdateBatches
    /\ swa' = SwaForward(swa, training["swa_model"])
    /\ step' = step + 1
    /\ UNCHANGED <<cfg, train_scores,
                   runVars, pc, epoch, iter, optVars, modeVars, evalVars,
                   estimator, trackVars, statVars, stepCalls, exc>>

\* faulty variant: train returns without saving the averaged model
A_ReturnsUnsaved ==
    /\ pc = "A_bn_batch"
    /\ step >= cfg.nTrain \/ step >= BNUpdateBatches
    /\ gradEnabled' = TRUE
    /\ pc' = "done"
    /\ UNCHANGED <<cfg, train_scores,
                   runVars, loopVars, optVars, swa, training, evalVars,
                   estimator, trackVars, statVars, stepCalls, exc>>

A_FinalizeEnd ==
    /\ pc = "A_bn_batch"
    /\ step >= cfg.nTrain \/ step >= BNUpdateBatches
    /\ gradEnabled' = TRUE
    /\ files' = [files EXCEPT !["swa_model_final_weights.pt"] =
                    [of |-> "swa_model", epoch |-> epoch, swa |-> swa]]
    /\ pc' = "done"
    /\ UNCHANGED <<cfg, train_scores, runVars,
                   loopVars, optVars, swa, training, evalVars, estimator,
                   history, max_indicator, epochs_no_improve, val_loss,
                   statVars, stepCalls, exc>>

\* ============================================================= eval()
\* faulty variant: eval() returns without model.train()
RestoreNothing(tr, m) == tr

\* "model.train(); torch.set_grad_enabled(True)" at the end of eval()
RestoreTrainMode(tr, m) == [tr EXCEPT ![m] = TRUE]

\* faulty variant: eval() never resets the estimator
EvalKeepsEstimator == FALSE

\* plans A and C reset the estimator inside eval(); plan B leaves it to the
\* caller
EvalResets == cfg.regime # "B"

EvalBegin ==
    /\ pc = "eval_begin"
    /\ evalEntry' = EntryState(evalModel)
    /\ training' = [training EXCEPT ![evalModel] = FALSE]
    /\ gradEnabled' = FALSE
    /\ estimator' = IF EvalResets THEN {} ELSE estimator
    /\ valStep' = 0
    /\ pc' = "eval_batch"
    /\ UNCHANGED <<cfg, train_scores,
                   runVars, loopVars, optVars, swa, evalModel, trackVars,
                   statVars, stepCalls, exc>>

\* one batch of the validation pass: the frozen encoder (inside its own
\* torch.no_grad(), which restores the flag it found), the model, the loss
\* and the estimator
EvalBatch ==
    /\ pc = "eval_batch" /\ valStep < cfg.nVal
    /\ swa' = IF evalModel = "swa_model"
              THEN SwaForward(swa, training["swa_model"]) ELSE swa
    /\ estimator' = estimator \cup {<<"val", epoch>>}
    /\ valStep' = valStep + 1
    /\ UNCHANGED <<cfg, train_scores, runVars,
                   pc, loopVars, optVars, modeVars, evalModel, evalEntry,
                   trackVars, statVars, stepCalls, exc>>

\* any of them raises: eval() has no try/finally, the exception leaves it
EvalBatchRaise ==
    /\ pc = "eval_batch" /\ valStep < cfg.nVal
    /\ \E r \in Raisers : Raise(r)
    /\ UNCHANGED <<cfg, train_scores, runVars,
                   loopVars, optVars, swa, modeVars, evalVars, estimator,
                   trackVars, statVars, stepCalls>>

\* plans A and B divide by len(dataloader); plan C guards the division
EvalDivides == cfg.regime # "C"

EvalEnd ==
    /\ pc = "eval_batch" /\ valStep = cfg.nVal
    /\ training' = RestoreTrainMode(training, evalModel)
    /\ gradEnabled' = TRUE
    /\ IF EvalDivides /\ cfg.nVal = 0
       THEN Raise("ZeroDivisionError")
       ELSE pc' = "after_eval" /\ exc' = exc
    /\ UNCHANGED <<cfg, train_scores,
                   runVars, loopVars, optVars, swa, evalVars, estimator,
                   trackVars, statVars, stepCalls>>

\* ======================================================= plan B (SAM)
\* faulty variant: SAM starts one epoch late
SamPhaseOffByOne == epoch > cfg.phase_start

\* "if epoch >= sam_start_epoch:"
SamPhase == epoch >= cfg.phase_start

\* faulty variant: first_step keeps a snapshot that is already there
FirstStepKeepsOldP(o, d, g, it) ==
    [p \in Params |-> IF HasGrad(g, p) /\ o[p] = NoSnap
                      THEN [val |-> d[p], iter |-> it] ELSE o[p]]

\* SAM._grad_norm: the device is read from the first parameter of the first
\* group, and torch.stack needs at least one gradient
GradNormError(groups, g) ==
    IF groups[1] = {} THEN "IndexError"
    ELSE IF \A p \in Params : ~HasGrad(g, p) THEN "RuntimeError"
         ELSE "none"

\* SAM.first_step: snapshot p.data into state[p]["old_p"] and add e_w, for
\* every parameter with a gradient
FirstStepOldP(o, d, g, it) ==
    [p \in Params |-> IF HasGrad(g, p) THEN [val |-> d[p], iter |-> it]
                                       ELSE o[p]]

FirstStepData(d, g) ==
    [p \in Params |-> IF HasGrad(g, p) THEN [d[p] EXCEPT !.pert = @ + 1]
                                       ELSE d[p]]

\* faulty variant: second_step does not undo the perturbation
SecondStepNoRestore(d, g, o) == d

\* SAM.second_step, the loop: "p.data = self.state[p]["old_p"]" for every
\* parameter with a gradient
SecondStepRestore(d, g, o) ==
    [p \in Params |-> IF HasGrad(g, p) THEN o[p].val ELSE d[p]]

\* after the restore p.data IS the old_p tensor, so the in-place update of the
\* base optimizer shows in state[p]["old_p"] too
AliasedOldP(o, g, d) ==
    [p \in Params |-> IF HasGrad(g, p) /\ o[p] # NoSnap
                      THEN [o[p] EXCEPT !.val = d[p]] ELSE o[p]]

B_Setup ==
    /\ pc = "entry" /\ cfg.regime = "B"
    /\ Setup("B_epoch_head")
    /\ UNCHANGED <<cfg, train_scores,
                   checkpoint, saved, step, iter, grad, sched, swa,
                   gradEnabled, evalVars, estimator, trackVars, statVars,
                   stepCalls>>

B_EpochHead ==
    /\ pc = "B_epoch_head"
    /\ IF epoch < cfg.epochs
       THEN /\ lr' = AdjustLearningRateB(epoch)
            /\ estimator' = {}
            /\ step' = 0
            /\ epochStats' = NewEpochStats
            /\ pc' = "B_batch"
       ELSE /\ pc' = "B_finalize"
            /\ UNCHANGED <<lr, estimator, step, epochStats>>
    /\ UNCHANGED <<cfg, train_scores, resumeVars,
                   epoch, iter, optVars, swa, modeVars, evalVars,
                   trackVars, iterStats, samCalls, stepCalls, exc>>

B_Forward ==
    /\ pc = "B_batch" /\ step < cfg.nTrain
    /\ iter' = iter + 1
    /\ iterStats' = [NewIterStats EXCEPT !.fwd = 1]
    /\ samCalls' = <<>>
    /\ pc' = IF SamPhase THEN "B_sam_backward1" ELSE "B_zero_grad"
    /\ UNCHANGED <<cfg, train_scores,
                   runVars, epoch, step, optVars, swa, modeVars, evalVars,
                   estimator, trackVars, epochStats, stepCalls, exc>>

B_SamBackward1 ==
    /\ pc = "B_sam_backward1"
    /\ grad' = Backward(grad, <<iter, 1>>)
    /\ iterStats' = [iterStats EXCEPT !.bwd = @ + 1]
    /\ pc' = "B_first_step"
    /\ UNCHANGED <<cfg, train_scores, runVars,
                   loopVars, data, old_p, optSteps, sched, swa, modeVars,
                   evalVars, estimator, trackVars, epochStats, samCalls,
                   stepCalls, exc>>

\* optimizer.first_step(zero_grad=True)
B_FirstStep ==
    /\ pc = "B_first_step"
    /\ samCalls' = Append(samCalls, "first_step")
    /\ IF GradNormError(ParamGroups, grad) # "none"
       THEN /\ Raise(GradNormError(ParamGroups, grad))
            /\ UNCHANGED <<old_p, data, grad>>
       ELSE /\ old_p' = FirstStepOldP(old_p, data, grad, iter)
            /\ data' = FirstStepData(data, grad)
            /\ grad' = ZeroGrad(grad)
            /\ pc' = "B_sam_pass2"
            /\ exc' = exc
    /\ UNCHANGED <<cfg, train_scores, runVars,
                   loopVars, optSteps, sched, swa, modeVars, evalVars,
                   estimator, trackVars, iterStats, epochStats, stepCalls>>

\* "loss_function(model(X_side, key_states, value_states), y).backward()"
B_SamPass2 ==
    /\ pc = "B_sam_pass2"
    /\ grad' = Backward(grad, <<iter, 2>>)
    /\ iterStats' = [iterStats EXCEPT !.fwd = @ + 1, !.bwd = @ + 1]
    /\ pc' = "B_second_step"
    /\ UNCHANGED <<cfg, train_scores, runVars,
                   loopVars, data, old_p, optSteps, sched, swa, modeVars,
                   evalVars, estimator, trackVars, epochStats, samCalls,
                   stepCalls, exc>>

\* optimizer.second_step(zero_grad=True), up to the base optimizer's update
B_SecondStepRestore ==
    /\ pc = "B_second_step"
    /\ samCalls' = Append(samCalls, "second_step")
    /\ IF \E p \in Params : HasGrad(grad, p) /\ old_p[p] = NoSnap
       THEN /\ Raise("KeyError")
            /\ UNCHANGED data
       ELSE /\ data' = SecondStepRestore(data, grad, old_p)
            /\ pc' = "B_second_base"
            /\ exc' = exc
    /\ UNCHANGED <<cfg, train_scores, runVars,
                   loopVars, grad, old_p, optSteps, sched, swa, modeVars,
                   evalVars, estimator, trackVars, iterStats, epochStats,
                   stepCalls>>

\* "self.base_optimizer.step(); if zero_grad: self.zero_grad()"
B_SecondStepBase ==
    /\ pc = "B_second_base"
    /\ data' = OptimizerStep(data, grad)
    /\ old_p' = AliasedOldP(old_p, grad, data')
    /\ optSteps' = optSteps + 1
    /\ grad' = ZeroGrad(grad)
    /\ iterStats' = [iterStats EXCEPT !.upd = @ + 1]
    /\ epochStats' = [epochStats EXCEPT !.optSteps = @ + 1]
    /\ pc' = "B_clip"
    /\ UNCHANGED <<cfg, train_scores, runVars,
                   loopVars, sched, swa, modeVars, evalVars, estimator,
                   trackVars, samCalls, stepCalls, exc>>

B_ZeroGrad ==
    /\ pc = "B_zero_grad"
    /\ grad' = ZeroGrad(grad)
    /\ pc' = "B_backward"
    /\ UNCHANGED <<cfg, train_scores, runVars,
                   loopVars, data, old_p, optSteps, sched, swa, modeVars,
                   evalVars, estimator, trackVars, statVars, stepCalls, exc>>

B_Backward ==
    /\ pc = "B_backward"
    /\ grad' = Backward(grad, <<iter, 1>>)
    /\ iterStats' = [iterStats EXCEPT !.bwd = @ + 1]
    /\ pc' = "B_base_step"
    /\ UNCHANGED <<cfg, train_scores, runVars,
                   loopVars, data, old_p, optSteps, sched, swa, modeVars,
                   evalVars, estimator, trackVars, epochStats, samCalls,
                   stepCalls, exc>>

\* "optimizer.base_optimizer.step()"
B_BaseStep ==
    /\ pc = "B_base_step"
    /\ data' = OptimizerStep(data, grad)
    /\ optSteps' = optSteps + 1
    /\ iterStats' = [iterStats EXCEPT !.upd = @ + 1]
    /\ epochStats' = [epochStats EXCEPT !.optSteps = @ + 1]
    /\ pc' = "B_clip"
    /\ UNCHANGED <<cfg, train_scores, runVars,
                   loopVars, grad, old_p, sched, swa, modeVars, evalVars,
                   estimator, trackVars, samCalls, stepCalls, exc>>

\* the clip of plan B comes after both branches
B_Clip ==
    /\ pc = "B_clip"
    /\ grad' = ClipGradNorm(grad)
    /\ pc' = "B_post_step"
    /\ UNCHANGED <<cfg, train_scores, runVars,
                   loopVars, data, old_p, optSteps, sched, swa, modeVars,
                   evalVars, estimator, trackVars, statVars, stepCalls, exc>>

B_PostStep ==
    /\ pc = "B_post_step"
    /\ estimator' = estimator \cup {<<"train", epoch>>}
    /\ step' = step + 1
    /\ pc' = "B_batch"
    /\ UNCHANGED <<cfg, train_scores,
                   runVars, epoch, iter, optVars, swa, modeVars, evalVars,
                   trackVars, statVars, stepCalls, exc>>

B_EpochTail ==
    /\ pc = "B_batch" /\ step = cfg.nTrain
    /\ IF cfg.nTrain = 0
       THEN /\ Raise("ZeroDivisionError")
            /\ UNCHANGED <<history, evalModel, estimator, train_scores>>
       ELSE /\ train_scores' = estimator
            /\ history' = [history EXCEPT
                             !.train_loss = Append(@, <<"train", epoch>>),
                             !.train_acc = Append(@, estimator)]
            /\ estimator' = {}
            /\ evalModel' = "model"
            /\ pc' = "eval_begin"
            /\ exc' = exc
    /\ UNCHANGED <<cfg, runVars,
                   loopVars, optVars, swa, modeVars, valStep, evalEntry,
                   max_indicator, epochs_no_improve, val_loss, files,
                   statVars, stepCalls>>

B_AfterEval ==
    /\ pc = "after_eval" /\ cfg.regime = "B"
    /\ \E ind \in Indicators :
         /\ history' = [history EXCEPT !.val_loss = Append(@, <<"val", epoch>>),
                                       !.val_acc = Append(@, ind)]
         /\ IF Improves(ind, max_indicator)
            THEN /\ max_indicator' = ind
                 /\ files' = [files EXCEPT
                                !["best_validation_weights.pt"] = ModelWeights]
            ELSE UNCHANGED <<max_indicator, files>>
    /\ epoch' = epoch + 1
    /\ pc' = "B_epoch_head"
    /\ UNCHANGED <<cfg, train_scores,
                   runVars, step, iter, optVars, swa, modeVars, evalVars,
                   estimator, epochs_no_improve, val_loss, statVars,
                   stepCalls, exc>>

B_Finalize ==
    /\ pc = "B_finalize"
    /\ files' = [files EXCEPT !["final_weights.pt"] = ModelWeights]
    /\ pc' = "done"
    /\ UNCHANGED <<cfg, train_scores, runVars,
                   loopVars, optVars, swa, modeVars, evalVars, estimator,
                   history, max_indicator, epochs_no_improve, val_loss,
                   statVars, stepCalls, exc>>

\* faulty variant: step() delegates to the base optimizer
SamStepDelegates(closure) ==
    /\ data' = OptimizerStep(data, grad)
    /\ optSteps' = optSteps + 1
    /\ UNCHANGED <<pc, exc, grad, old_p>>

\* SAM.step(closure=None): "raise NotImplementedError(...)"
SamStep(closure) ==
    /\ Raise("NotImplementedError")
    /\ UNCHANGED <<data, grad, old_p, optSteps>>

\* a caller of plan B's optimizer that calls its plain step() at any point of
\* the run
SAM_StepCall ==
    /\ cfg.regime = "B" /\ pc \notin {"entry", "raised", "done"}
    /\ stepCalls < MaxStepCalls
    /\ stepCalls' = stepCalls + 1
    /\ \E closure \in {"None", "closure"} : SamStep(closure)
    /\ UNCHANGED <<cfg, train_scores, runVars,
                   loopVars, sched, swa, modeVars, evalVars, estimator,
                   trackVars, statVars>>

\* ================================================== plan C (baseline)
C_Setup ==
    /\ pc = "entry" /\ cfg.regime = "C"
    /\ Setup("C_epoch_head")
    /\ UNCHANGED <<cfg, train_scores,
                   checkpoint, saved, step, iter, grad, sched, swa,
                   gradEnabled, evalVars, estimator, trackVars, statVars,
                   stepCalls>>

C_EpochHead ==
    /\ pc = "C_epoch_head"
    /\ IF epoch < cfg.epochs
       THEN /\ estimator' = {}
            /\ step' = 0
            /\ epochStats' = NewEpochStats
            /\ pc' = "C_batch"
       ELSE /\ pc' = "C_finalize"
            /\ UNCHANGED <<estimator, step, epochStats>>
    /\ UNCHANGED <<cfg, train_scores,
                   runVars, epoch, iter, optVars, swa, modeVars, evalVars,
                   trackVars, iterStats, samCalls, stepCalls, exc>>

C_Forward ==
    /\ pc = "C_batch" /\ step < cfg.nTrain
    /\ lr' = AdjustLearningRateC(epoch, step, cfg.nTrain)
    /\ iter' = iter + 1
    /\ iterStats' = [NewIterStats EXCEPT !.fwd = 1]
    /\ pc' = "C_zero_grad"
    /\ UNCHANGED <<cfg, train_scores, resumeVars,
                   epoch, step, optVars, swa, modeVars, evalVars,
                   estimator, trackVars, epochStats, samCalls, stepCalls, exc>>

C_ZeroGrad ==
    /\ pc = "C_zero_grad"
    /\ grad' = ZeroGrad(grad)
    /\ pc' = "C_backward"
    /\ UNCHANGED <<cfg, train_scores, runVars,
                   loopVars, data, old_p, optSteps, sched, swa, modeVars,
                   evalVars, estimator, trackVars, statVars, stepCalls, exc>>

C_Backward ==
    /\ pc = "C_backward"
    /\ grad' = Backward(grad, <<iter, 1>>)
    /\ iterStats' = [iterStats EXCEPT !.bwd = @ + 1]
    /\ pc' = "C_clip"
    /\ UNCHANGED <<cfg, train_scores, runVars,
                   loopVars, data, old_p, optSteps, sched, swa, modeVars,
                   evalVars, estimator, trackVars, epochStats, samCalls,
                   stepCalls, exc>>

C_Clip ==
    /\ pc = "C_clip"
    /\ grad' = ClipGradNorm(grad)
    /\ pc' = "C_opt_step"
    /\ UNCHANGED <<cfg, train_scores, runVars,
                   loopVars, data, old_p, optSteps, sched, swa, modeVars,
                   evalVars, estimator, trackVars, statVars, stepCalls, exc>>

C_OptStep ==
    /\ pc = "C_opt_step"
    /\ data' = OptimizerStep(data, grad)
    /\ optSteps' = optSteps + 1
    /\ iterStats' = [iterStats EXCEPT !.upd = @ + 1]
    /\ epochStats' = [epochStats EXCEPT !.optSteps = @ + 1]
    /\ pc' = "C_post_step"
    /\ UNCHANGED <<cfg, train_scores, runVars,
                   loopVars, grad, old_p, sched, swa, modeVars, evalVars,
                   estimator, trackVars, samCalls, stepCalls, exc>>

C_PostStep ==
    /\ pc = "C_post_step"
    /\ estimator' = estimator \cup {<<"train", epoch>>}
    /\ step' = step + 1
    /\ pc' = "C_batch"
    /\ UNCHANGED <<cfg, train_scores,
                   runVars, epoch, iter, optVars, swa, modeVars, evalVars,
                   trackVars, statVars, stepCalls, exc>>

\* "if epoch % cfg.train.save_interval == 0" / "... eval_interval == 0"
OnInterval(e, interval) == e % interval = 0

\* save_checkpoint(cfg, model, epoch, optimizer, "checkpoint.pt")
Checkpoint == [epoch |-> epoch, state_dict |-> data,
               optimizer |-> StateDict(OptimizerState)]

C_EpochTail ==
    /\ pc = "C_batch" /\ step = cfg.nTrain
    /\ train_scores' = estimator
    /\ files' = IF OnInterval(epoch, cfg.save_interval)
                THEN [files EXCEPT !["checkpoint.pt"] = Checkpoint]
                ELSE files
    /\ IF OnInterval(epoch, cfg.eval_interval)
       THEN /\ evalModel' = "model"
            /\ pc' = "eval_begin"
       ELSE /\ pc' = "C_history"
            /\ UNCHANGED evalModel
    /\ UNCHANGED <<cfg, runVars,
                   loopVars, optVars, swa, modeVars, valStep, evalEntry,
                   estimator, history, max_indicator, epochs_no_improve,
                   val_loss, statVars, stepCalls, exc>>

C_AfterEval ==
    /\ pc = "after_eval" /\ cfg.regime = "C"
    /\ \E ind \in Indicators :
         /\ val_loss' = [epoch |-> epoch, acc |-> ind]
         /\ IF Improves(ind, max_indicator)
            THEN /\ max_indicator' = ind
                 /\ files' = [files EXCEPT
                                !["best_validation_weights.pt"] = ModelWeights]
            ELSE UNCHANGED <<max_indicator, files>>
    /\ pc' = "C_history"
    /\ UNCHANGED <<cfg, train_scores, runVars,
                   loopVars, optVars, swa, modeVars, evalVars, estimator,
                   history, epochs_no_improve, statVars, stepCalls, exc>>

\* faulty variant: the validation series get a record only in the epochs
\* that were validated
C_HistoryOfValidatedEpochs ==
    /\ pc = "C_history"
    /\ history' = IF val_loss # Unbound /\ val_loss.epoch = epoch
                  THEN [history EXCEPT
                          !.train_loss = Append(@, <<"train", epoch>>),
                          !.train_acc = Append(@, train_scores),
                          !.val_loss = Append(@, <<"val", val_loss.epoch>>),
                          !.val_acc = Append(@, val_loss.acc)]
                  ELSE [history EXCEPT
                          !.train_loss = Append(@, <<"train", epoch>>),
                          !.train_acc = Append(@, train_scores)]
    /\ epoch' = epoch + 1
    /\ pc' = "C_epoch_head"
    /\ UNCHANGED <<cfg, train_scores,
                   runVars, step, iter, optVars, swa, modeVars, evalVars,
                   estimator, max_indicator, epochs_no_improve, val_loss,
                   files, statVars, stepCalls, exc>>

\* the four appends that end the epoch; the last two read val_loss and
\* validation_acc, which are unbound until a validation pass has run
C_History ==
    /\ pc = "C_history"
    /\ IF val_loss = Unbound
       THEN /\ history' = [history EXCEPT
                             !.train_loss = Append(@, <<"train", epoch>>),
                             !.train_acc = Append(@, train_scores)]
            /\ Raise("UnboundLocalError")
            /\ epoch' = epoch
       ELSE /\ history' = [history EXCEPT
                             !.train_loss = Append(@, <<"train", epoch>>),
                             !.train_acc = Append(@, train_scores),
                             !.val_loss = Append(@, <<"val", val_loss.epoch>>),
                             !.val_acc = Append(@, val_loss.acc)]
            /\ epoch' = epoch + 1
            /\ pc' = "C_epoch_head"
            /\ exc' = exc
    /\ UNCHANGED <<cfg, train_scores,
                   runVars, step, iter, optVars, swa, modeVars, evalVars,
                   estimator, max_indicator, epochs_no_improve, val_loss,
                   files, statVars, stepCalls>>

C_Finalize ==
    /\ pc = "C_finalize"
    /\ files' = [files EXCEPT !["final_weights.pt"] = ModelWeights]
    /\ pc' = "done"
    /\ UNCHANGED <<cfg, train_scores, runVars,
                   loopVars, optVars, swa, modeVars, evalVars, estimator,
                   history, max_indicator, epochs_no_improve, val_loss,
                   statVars, stepCalls, exc>>

\* =============================================================== Next
NextA == \/ A_Setup \/ A_EpochHead \/ A_Forward \/ A_ZeroGrad \/ A_Backward
         \/ A_Clip \/ A_OptStep \/ A_PostStep \/ A_EpochTail \/ A_AfterEval
         \/ A_FinalizeBegin \/ A_BNBatch \/ A_FinalizeEnd

NextEval == EvalBegin \/ EvalBatch \/ EvalBatchRaise \/ EvalEnd

NextB == \/ B_Setup \/ B_EpochHead \/ B_Forward \/ B_SamBackward1
         \/ B_FirstStep \/ B_SamPass2 \/ B_SecondStepRestore
         \/ B_SecondStepBase \/ B_ZeroGrad \/ B_Backward \/ B_BaseStep
         \/ B_Clip \/ B_PostStep \/ B_EpochTail \/ B_AfterEval \/ B_Finalize

NextC == \/ C_Setup \/ C_EpochHead \/ C_Forward \/ C_ZeroGrad \/ C_Backward
         \/ C_Clip \/ C_OptStep \/ C_PostStep \/ C_EpochTail \/ C_AfterEval
         \/ C_History \/ C_Finalize

Next == NextA \/ NextB \/ NextC \/ NextEval

Spec == Init /\ [][Next]_vars

\* the same runs, with a caller that may call SAM.step()
NextSamStep == Next \/ SAM_StepCall

SpecSamStep == Init /\ [][NextSamStep]_vars

\* eval() called on its own, from any model mode and gradient flag
InitEval ==
    /\ cfg \in {c \in Configs : /\ c.epochs = 1 /\ c.phase_start = 0
                                /\ c.patience = 1 /\ c.nTrain = 1
                                /\ c.eval_interval = 1 /\ c.save_interval = 1
                                /\ c.modelModeIn}
    /\ pc = "eval_begin"
    /\ epoch = 0 /\ step = 0 /\ iter = 0
    /\ optSteps \in 0..MaxBatches
    /\ data = [p \in Params |->
                 [ver |-> IF p \in InGraph THEN optSteps ELSE 0, pert |-> 0]]
    /\ grad \in {[p \in Params |-> NoGrad],
                 ClipGradNorm(Backward([p \in Params |-> NoGrad], <<1, 1>>))}
    /\ old_p = [p \in Params |-> NoSnap]
    /\ sched = [main |-> 0, swa |-> 0]
    /\ lr = BaseLr
    /\ start_epoch = 0
    /\ checkpoint = NoFile
    /\ saved = NoFile
    /\ swa = [n_averaged |-> 0, avg_of |-> {0}, bnFresh |-> TRUE]
    /\ training \in [Models -> BOOLEAN]
    /\ gradEnabled \in BOOLEAN
    /\ evalModel \in (IF cfg.regime = "A" THEN Models ELSE {"model"})
    /\ valStep = 0
    /\ evalEntry = EntryState(evalModel)
    /\ estimator \in {{}, {<<"train", 0>>}}
    /\ train_scores = {}
    /\ history = NewHistory
    /\ max_indicator = 0 /\ epochs_no_improve = 0
    /\ val_loss = Unbound
    /\ files = [f \in FileNames |-> NoFile]
    /\ iterStats = NewIterStats
    /\ epochStats = NewEpochStats
    /\ samCalls = <<>>
    /\ stepCalls = 0
    /\ exc = "none"

SpecEval == InitEval /\ [][NextEval]_vars

\* plan A on its own, with a train loader longer than the recalibration pass
\* among its configurations.  train() is a sequential program: a step that
\* can be taken is taken
ConfigsALong ==
    {[c EXCEPT !.nTrain = BNUpdateBatches + 1] :
        c \in {d \in ConfigsA : d.epochs = 1 /\ d.nTrain = 1 /\ d.nVal = 1}}

InitTrainA == cfg \in ConfigsA \cup ConfigsALong /\ InitRun

NextTrainA == NextA \/ NextEval

SpecTrainA == InitTrainA /\ [][NextTrainA]_vars /\ WF_vars(NextTrainA)

\* runs over every optimizer name, criterion name and checkpoint setting;
\* no file is at the checkpoint path
ConfigsSetup ==
    {[c EXCEPT !.optimizer = o, !.criterion = cr, !.checkpoint = ck] :
        c \in {d \in Configs : d.nTrain = 1 /\ d.nVal = 1 /\ d.modelModeIn},
        o \in OptimizerNames, cr \in CriterionNames, ck \in CheckpointPaths}

InitSetup == cfg \in ConfigsSetup /\ InitRun

SpecSetup == InitSetup /\ [][Next]_vars

\* plans B and C over every warmup_epochs of the bound
ConfigsSchedule ==
    {[c EXCEPT !.warmup_epochs = w] :
        c \in {d \in ConfigsB \cup ConfigsC : d.nVal = 1}, w \in 0..MaxWarmup}

InitSchedule == cfg \in ConfigsSchedule /\ InitRun

NextSchedule == NextB \/ NextC \/ NextEval

SpecSchedule == InitSchedule /\ [][NextSchedule]_vars

\* "(epoch - warmup_epochs) / (cfg.train.epochs - warmup_epochs)" of the
\* cosine branch of both adjust_learning_rate functions, at progress pn / pd:
\* Python raises when the divisor is zero
AdjustLearningRateError(pn, pd) ==
    IF pn >= cfg.warmup_epochs * pd /\ cfg.epochs - cfg.warmup_epochs = 0
    THEN "ZeroDivisionError" ELSE "none"

\* plan B over models whose backbone parameter is or is not named
\* 'cnn_backbone'
ConfigsFirstStep ==
    {[c EXCEPT !.backbone_named = b] :
        c \in {d \in ConfigsB : d.nVal = 1}, b \in BOOLEAN}

InitFirstStep == cfg \in ConfigsFirstStep /\ InitRun

NextFirstStep == NextB \/ NextEval

SpecFirstStep == InitFirstStep /\ [][NextFirstStep]_vars

\* adjust_learning_rate called on its own at any progress of [0, epochs]:
\* an epoch for plan B, epoch + step / len(train_loader) for plan C
InitScheduleCall == cfg \in {c \in ConfigsSchedule : c.nTrain >= 1} /\ InitRun

ScheduleCall ==
    /\ pc = "entry"
    /\ \E e \in 0..cfg.epochs :
       \E st \in IF cfg.regime = "C" /\ e < cfg.epochs
                 THEN 0..(cfg.nTrain - 1) ELSE {0} :
          LET pn == IF cfg.regime = "B" THEN e ELSE e * cfg.nTrain + st
              pd == IF cfg.regime = "B" THEN 1 ELSE cfg.nTrain
          IN  /\ epoch' = e
              /\ step' = st
              /\ IF AdjustLearningRateError(pn, pd) # "none"
                 THEN /\ Raise(AdjustLearningRateError(pn, pd))
                      /\ UNCHANGED lr
                 ELSE /\ lr' = IF cfg.regime = "B"
                               THEN AdjustLearningRateB(e)
                               ELSE AdjustLearningRateC(e, st, cfg.nTrain)
                      /\ pc' = "returned"
                      /\ exc' = exc
    /\ UNCHANGED <<cfg, train_scores,
                   resumeVars, iter, optVars, swa, modeVars, evalVars,
                   estimator, trackVars, statVars, stepCalls>>

SpecScheduleCall == InitScheduleCall /\ [][ScheduleCall]_vars

\* a run that has finished the training pass of some epoch, with the best
\* indicator it has seen and the best weights it has written, saves a
\* checkpoint; the process ends, and a new one, configured with the path of
\* that checkpoint, builds a fresh model and optimizer and resumes
ConfigsResume ==
    {[c EXCEPT !.checkpoint = "checkpoint.pt"] :
        c \in {d \in Configs : d.nTrain = 1 /\ d.nVal = 1 /\ d.modelModeIn}}

InitResume ==
    /\ cfg \in ConfigsResume
    /\ pc = "save_checkpoint"
    /\ epoch \in 0..(cfg.epochs - 1)
    /\ step = cfg.nTrain
    /\ iter = cfg.nTrain * (epoch + 1)
    /\ optSteps = iter
    /\ data = [p \in Params |->
                 [ver |-> IF p \in InGraph THEN optSteps ELSE 0, pert |-> 0]]
    /\ grad = IF cfg.regime = "B" /\ SamPhase
              THEN [p \in Params |-> NoGrad]
              ELSE ClipGradNorm(Backward([p \in Params |-> NoGrad],
                                         <<iter, 1>>))
    /\ old_p = IF cfg.regime = "B" /\ SamPhase
               THEN [p \in Params |->
                       IF p \in InGraph THEN [val |-> data[p], iter |-> iter]
                                        ELSE NoSnap]
               ELSE [p \in Params |-> NoSnap]
    /\ sched = IF cfg.regime # "A" THEN [main |-> 0, swa |-> 0]
               ELSE IF epoch < cfg.phase_start
                    THEN [main |-> optSteps, swa |-> 0]
                    ELSE [main |-> cfg.nTrain * cfg.phase_start,
                          swa |-> epoch - cfg.phase_start + 1]
    /\ lr = IF cfg.regime = "B" THEN AdjustLearningRateB(epoch)
            ELSE IF cfg.regime = "C"
                 THEN AdjustLearningRateC(epoch, cfg.nTrain - 1, cfg.nTrain)
                 ELSE IF epoch < cfg.phase_start THEN OneCycleRate(sched.main)
                                                 ELSE SwaRate(sched.swa)
    /\ swa = [n_averaged |-> 0, avg_of |-> {0}, bnFresh |-> TRUE]
    /\ training = [m \in Models |-> TRUE]
    /\ gradEnabled = TRUE
    /\ evalModel = "model" /\ valStep = 0
    /\ evalEntry = EntryState("model")
    /\ estimator = {}
    /\ train_scores = {}
    /\ history = NewHistory
    /\ max_indicator \in {i \in Indicators : i >= 0}
    /\ epochs_no_improve = 0
    /\ val_loss = Unbound
    /\ \E e \in 0..epoch :
         files = [f \in FileNames |->
                    IF f = "best_validation_weights.pt" /\ max_indicator > 0
                    THEN [of |-> "model", epoch |-> e,
                          ver |-> cfg.nTrain * (e + 1)]
                    ELSE NoFile]
    /\ iterStats = NewIterStats
    /\ epochStats = NewEpochStats
    /\ samCalls = <<>>
    /\ stepCalls = 0
    /\ exc = "none"
    /\ start_epoch = 0
    /\ checkpoint = NoFile
    /\ saved = NoFile

\* save_checkpoint(cfg, model, epoch, optimizer, save_name), written to the
\* path the next process is given
SaveCheckpoint ==
    /\ pc = "save_checkpoint"
    /\ checkpoint' = Checkpoint
    /\ saved' = [epoch |-> epoch, data |-> data, opt |-> OptimizerState,
               best |-> max_indicator]
    /\ pc' = "saved"
    /\ UNCHANGED <<cfg, train_scores,
                   start_epoch, lr, loopVars, optVars, swa, modeVars,
                   evalVars, estimator, trackVars, statVars, stepCalls, exc>>

\* the new process: model and optimizer as they are constructed
Restart ==
    /\ pc = "saved"
    /\ pc' = "entry"
    /\ epoch' = 0 /\ step' = 0 /\ iter' = 0
    /\ data' = [p \in Params |-> [ver |-> 0, pert |-> 0]]
    /\ grad' = [p \in Params |-> NoGrad]
    /\ old_p' = [p \in Params |-> NoSnap]
    /\ optSteps' = 0
    /\ sched' = [main |-> 0, swa |-> 0]
    /\ lr' = BaseLr
    /\ training' = [m \in Models |-> cfg.modelModeIn]
    /\ max_indicator' = 0
    /\ epochs_no_improve' = 0
    /\ UNCHANGED <<cfg, train_scores,
                   resumeVars, swa, gradEnabled, evalVars, estimator,
                   history, val_loss, files, statVars, stepCalls, exc>>

NextResume == SaveCheckpoint \/ Restart \/ Next

SpecResume == InitResume /\ [][NextResume]_vars

\* ============================================================== claims

\* C1: in every plan, whenever the optimizer applies an update, every
\* gradient it consumes has been clipped since the backward pass that
\* produced it (clip after backward, before the optimizer step).
C1_UpdatesUseClippedGradients ==
    [][optSteps' = optSteps + 1 =>
         \A p \in Params : HasGrad(grad, p) => grad[p].clipped]_vars

\* C2: plan B, at the end of a training iteration: two forward passes, two
\* backward passes and one base-optimizer update when
\* epoch >= sam_start_epoch; one of each otherwise.
C2_PassesPerIteration ==
    (cfg.regime = "B" /\ (pc = "B_post_step" \/ (pc = "B_batch" /\ step >= 1)))
    => IF epoch >= cfg.phase_start
       THEN iterStats = [fwd |-> 2, bwd |-> 2, upd |-> 1]
       ELSE iterStats = [fwd |-> 1, bwd |-> 1, upd |-> 1]

C2_Witness ==
    /\ cfg.regime = "B" /\ cfg.phase_start = 1 /\ cfg.nTrain = 2
    /\ epoch = 1 /\ pc = "B_batch" /\ step = 2

\* C3: SAM.second_step, at the moment the base optimizer's update is applied:
\* every parameter first_step perturbed in this iteration holds its
\* pre-perturbation value (no perturbation left, equal to the old_p
\* snapshot), and the gradient consumed is the second pass's alone.
C3_RestoredBeforeUpdate ==
    pc = "B_second_base" =>
      \A p \in Params :
        (old_p[p] # NoSnap /\ old_p[p].iter = iter) =>
          /\ data[p] = [ver |-> optSteps, pert |-> 0]
          /\ data[p] = old_p[p].val
          /\ grad[p] = [src |-> {<<iter, 2>>}, clipped |-> FALSE]

C3_Witness ==
    /\ pc = "B_second_base" /\ iter >= 2 /\ optSteps >= 1
    /\ \A p \in InGraph : old_p[p] # NoSnap /\ old_p[p].iter = iter

\* C4 as claimed: second_step follows first_step in the same iteration and
\* restores that iteration's snapshot, and no snapshot is held once
\* second_step has returned (snapshots exist only between the two calls).
C4_SnapshotScopedToStep ==
    /\ (pc \in {"B_second_base", "B_clip"} /\ samCalls # <<>>)
         => samCalls = <<"first_step", "second_step">>
    /\ pc = "B_second_base" =>
         \A p \in Params : HasGrad(grad, p) =>
            old_p[p] # NoSnap /\ old_p[p].iter = iter
    /\ pc \notin {"B_sam_pass2", "B_second_step", "B_second_base"} =>
         \A p \in Params : old_p[p] = NoSnap

\* C4 amended: second_step follows first_step in the same iteration and
\* restores only snapshots written by that iteration's first_step; a
\* snapshot of an earlier iteration is never restored, because the one that
\* stays in the optimizer state after second_step is overwritten by the next
\* first_step.
C4_NoStaleSnapshotRestored ==
    /\ (pc \in {"B_second_base", "B_clip"} /\ samCalls # <<>>)
         => samCalls = <<"first_step", "second_step">>
    /\ pc \in {"B_second_step", "B_second_base"} =>
         \A p \in Params : HasGrad(grad, p) =>
            old_p[p] # NoSnap /\ old_p[p].iter = iter
    /\ pc \in {"B_sam_pass2", "B_second_step", "B_second_base"} =>
         \A p \in Params : old_p[p] # NoSnap => old_p[p].iter = iter

C4_Witness ==
    /\ pc = "B_second_base" /\ iter >= 2
    /\ samCalls = <<"first_step", "second_step">>
    /\ \A p \in InGraph : old_p[p] # NoSnap /\ old_p[p].iter = iter
    /\ \A p \in InGraph : data[p].ver >= 1

\* C5: every call of SAM.step(), with or without a closure and whatever the
\* optimizer state, raises NotImplementedError and changes neither a
\* parameter nor the optimizer state.
C5_StepAlwaysFails ==
    [][stepCalls' # stepCalls =>
         /\ pc' = "raised" /\ exc' = "NotImplementedError"
         /\ data' = data /\ grad' = grad
         /\ OptimizerState' = OptimizerState]_vars

C5_Witness ==
    /\ stepCalls = 1 /\ exc = "NotImplementedError"
    /\ optSteps >= 1 /\ \E p \in Params : old_p[p] # NoSnap

\* C6: plan A with swa_start_epoch = k.  During the iterations of an epoch
\* the averaged model is not updated; once the epoch's training is over, an
\* epoch < k has stepped the one-cycle schedule once per optimizer step and
\* neither updated the averaged model nor stepped the SWA schedule, and an
\* epoch >= k has updated the averaged model exactly once, stepped the SWA
\* schedule (once) and never the one-cycle schedule.
C6_SwaPhaseTransition ==
    cfg.regime = "A" =>
      /\ pc \in {"A_batch", "A_zero_grad", "A_backward", "A_clip",
                 "A_opt_step", "A_post_step"} => epochStats.swaUpd = 0
      /\ pc \in {"eval_begin", "eval_batch", "after_eval"} =>
           IF epoch < cfg.phase_start
           THEN /\ epochStats.swaUpd = 0 /\ epochStats.swaSched = 0
                /\ epochStats.optSteps = cfg.nTrain
                /\ epochStats.mainSched = epochStats.optSteps
                /\ swa.n_averaged = 0
                /\ sched = [main |-> cfg.nTrain * (epoch + 1), swa |-> 0]
           ELSE /\ epochStats.swaUpd = 1 /\ epochStats.swaSched = 1
                /\ epochStats.optSteps = cfg.nTrain
                /\ epochStats.mainSched = 0
                /\ swa.n_averaged = epoch - cfg.phase_start + 1
                /\ sched = [main |-> cfg.nTrain * cfg.phase_start,
                            swa |-> epoch - cfg.phase_start + 1]

C6_Witness ==
    /\ cfg.regime = "A" /\ cfg.phase_start = 1 /\ cfg.nTrain = 2
    /\ epoch = 2 /\ pc = "after_eval"
    /\ swa.n_averaged = 2 /\ sched.main = 2

\* C7: plan A: the averaged model runs a validation batch, or is saved, only
\* with batch-norm statistics recomputed since its last parameter update, and
\* it is only ever run with gradient tracking disabled.
C7_SwaBatchNormRecomputed ==
    /\ (pc = "eval_batch" /\ evalModel = "swa_model" /\ valStep >= 1)
         => swa.bnFresh /\ ~gradEnabled
    /\ pc = "A_bn_batch" => ~gradEnabled
    /\ files["swa_model_final_weights.pt"] # NoFile
         => files["swa_model_final_weights.pt"].swa.bnFresh

\* C8: when eval() returns normally, the evaluated model is in train() mode
\* and gradient tracking is enabled, whatever they were at entry, and the
\* optimizer state is what it was at entry.
C8_EvalRestoresModes ==
    pc = "after_eval" =>
      /\ training[evalModel] /\ gradEnabled
      /\ OptimizerState = evalEntry.opt

C8_Witness ==
    /\ pc = "after_eval" /\ valStep >= 1
    /\ ~evalEntry.training /\ ~evalEntry.grad
    /\ evalEntry.opt.steps >= 1

\* C9: when an exception raised in the middle of a validation pass leaves
\* eval(), gradient tracking is enabled and the model is in train() mode.
C9_EvalRestoresOnException ==
    (pc = "raised" /\ exc \in Raisers) => gradEnabled /\ training[evalModel]

\* C10: plan A: the epoch loop breaks after an epoch exactly when that epoch
\* completes `patience` consecutive epochs without a strict improvement over
\* the best indicator seen so far.  For the first epoch, before any indicator
\* has been seen, the initial max_indicator (0) is taken as the best.
SetMax(S) == CHOOSE x \in S : \A y \in S : y <= x

BestSeen(h, i) == IF i = 1 THEN 0 ELSE SetMax({h[j] : j \in 1..(i - 1)})

RECURSIVE Stall(_, _)
Stall(h, n) == IF n = 0 \/ h[n] > BestSeen(h, n) THEN 0
               ELSE 1 + Stall(h, n - 1)

C10_StopsExactlyAtPatience ==
    LET h == history.val_acc
        broke == pc = "A_finalize" /\ epoch < cfg.epochs
        goesOn == pc = "A_epoch_head" /\ Len(h) >= 1
    IN  cfg.regime = "A" =>
          /\ broke => Stall(h, Len(h)) >= cfg.patience
          /\ goesOn => Stall(h, Len(h)) < cfg.patience

\* C11: in each of the three plans, once the validation indicator has gone
\* early_stopping_patience consecutive epochs without improving, the epoch
\* loop has ended: no further training epoch is under way.
C11_NoEpochAfterPatience ==
    LET h == history.val_acc
    IN  (pc \in {"A_batch", "B_batch", "C_batch"} /\ Len(h) = epoch /\ Len(h) >= 1)
          => Stall(h, Len(h)) < cfg.patience

\* C12: plan A: the epoch loop runs at most epochs - start_epoch epochs of at
\* most len(train_loader) iterations each and is eventually left; once it is
\* left normally, by exhausting the epochs or by early stopping, train
\* returns, and when it returns the recalibration pass has run over
\* min(len(train_loader), 100) batches in train() mode without gradient
\* tracking and the averaged model has been saved as it is then.
C12_LeavesLoopThroughFinalize ==
    /\ [](/\ epoch <= cfg.epochs /\ (pc # "A_bn_batch" => step <= cfg.nTrain)
          /\ iter <= (cfg.epochs - start_epoch) * cfg.nTrain)
    /\ <>(pc \in {"A_finalize", "raised"})
    /\ (pc = "A_finalize") ~> (pc = "done")
    /\ [](pc = "A_bn_batch" => ~gradEnabled /\ training["swa_model"])
    /\ [](pc = "done" =>
            /\ step = IF cfg.nTrain < BNUpdateBatches THEN cfg.nTrain
                                                      ELSE BNUpdateBatches
            /\ files["swa_model_final_weights.pt"] # NoFile
            /\ files["swa_model_final_weights.pt"].swa = swa)

C12_Witness ==
    /\ pc = "done" /\ epoch < cfg.epochs /\ epochs_no_improve >= cfg.patience
    /\ cfg.nTrain > BNUpdateBatches /\ step = BNUpdateBatches
    /\ files["swa_model_final_weights.pt"] # NoFile

\* C13: in every plan, when train has returned normally final_weights.pt is
\* in the save directory (the file main loads next), and in plan A
\* swa_model_final_weights.pt as well.
C13_FinalWeightsWritten ==
    pc = "done" =>
      /\ files["final_weights.pt"] # NoFile
      /\ cfg.regime = "A" => files["swa_model_final_weights.pt"] # NoFile

\* C14: in every plan, after a run that validated at least one epoch,
\* best_validation_weights.pt exists and holds the weights the live model
\* had in the first epoch that attained the largest validation indicator of
\* the run, whatever the indicator values are.
FirstMaximum(h) ==
    CHOOSE i \in 1..Len(h) :
        /\ \A j \in 1..Len(h) : h[j] <= h[i]
        /\ \A j \in 1..(i - 1) : h[j] < h[i]

C14_BestWeightsOfFirstMaximum ==
    LET h == history.val_acc
        best == files["best_validation_weights.pt"]
    IN  (pc = "done" /\ Len(h) >= 1) =>
          /\ best # NoFile
          /\ best = [of |-> "model", epoch |-> start_epoch + FirstMaximum(h) - 1,
                     ver |-> cfg.nTrain * FirstMaximum(h)]

\* C15: in every plan, when n epochs of the run have been completed each of
\* the four history series holds exactly n records, and a step of the run
\* changes a series only by appending one record to it: the records already
\* there stay as they are.
HistorySeries == {"train_loss", "train_acc", "val_loss", "val_acc"}

C15_HistoryAppendOnly ==
    /\ [](pc \in {"A_epoch_head", "B_epoch_head", "C_epoch_head"} =>
            \A k \in HistorySeries : Len(history[k]) = epoch - start_epoch)
    /\ []((pc \in {"A_finalize", "A_bn_batch", "done"} /\ epoch < cfg.epochs) =>
            \A k \in HistorySeries :
               Len(history[k]) = epoch - start_epoch + 1)
    /\ [][\A k \in HistorySeries :
            \/ history'[k] = history[k]
            \/ /\ Len(history'[k]) = Len(history[k]) + 1
               /\ SubSeq(history'[k], 1, Len(history[k])) = history[k]]_vars

C15_Witness ==
    /\ cfg.regime = "C" /\ cfg.eval_interval = 2 /\ pc = "C_epoch_head"
    /\ epoch = 2 /\ \A k \in HistorySeries : Len(history[k]) = 2

\* C16: in every plan, once the training pass of an epoch e with
\* e % save_interval = 0 is over, checkpoint.pt is in the save directory and
\* records epoch e with the model and the optimizer as that pass left them.
C16_IntervalCheckpoint ==
    (/\ pc \in {"eval_begin", "eval_batch", "after_eval", "C_history"}
     /\ OnInterval(epoch, cfg.save_interval))
    => files["checkpoint.pt"] =
         [epoch |-> epoch, state_dict |-> data,
          optimizer |-> StateDict(OptimizerState)]

\* C17: save_checkpoint at epoch e followed by resume in a new process:
\* resume returns e + 1, and the model state and the whole optimizer state
\* (for SAM the state of the wrapped base optimizer included) are what they
\* were when the checkpoint was saved.
C17_ResumeRoundTrip ==
    (/\ saved # NoFile
     /\ pc \in {"A_epoch_head", "B_epoch_head", "C_epoch_head"}
     /\ epoch = start_epoch /\ Len(history.train_loss) = 0)
    => /\ start_epoch = saved.epoch + 1
       /\ data = saved.data
       /\ OptimizerState = saved.opt

\* C18: in every plan, with a checkpoint path configured and no file at it,
\* the run ends in resume with FileNotFoundError before any epoch, and the
\* model and the optimizer are as the set-up built them: nothing is loaded.
C18_MissingCheckpointAborts ==
    (cfg.checkpoint # "none" /\ checkpoint = NoFile /\ SetupError = "none")
    => /\ pc \in {"entry", "raised"}
       /\ pc = "raised" =>
            /\ exc = "FileNotFoundError"
            /\ epoch = 0 /\ iter = 0 /\ history = NewHistory
            /\ data = [p \in Params |-> [ver |-> 0, pert |-> 0]]
            /\ optSteps = 0 /\ old_p = [p \in Params |-> NoSnap]
            /\ lr = IF cfg.regime = "A" THEN OneCycleRate(0) ELSE BaseLr

C18_Witness ==
    /\ cfg.checkpoint = "checkpoint.pt" /\ checkpoint = NoFile
    /\ cfg.regime = "B" /\ pc = "raised" /\ exc = "FileNotFoundError"

\* C19: in every plan, a configuration whose optimizer name or criterion
\* name is not a supported one fails in the set-up with NotImplementedError:
\* no training iteration is run and train writes no file.
C19_UnsupportedNameFailsFast ==
    (cfg.optimizer \notin SupportedOptimizers
       \/ cfg.criterion \notin SupportedCriteria)
    => /\ pc \in {"entry", "raised"}
       /\ pc = "raised" => exc = "NotImplementedError"
       /\ iter = 0
       /\ \A f \in FileNames : files[f] = NoFile

\* C20: the warmup+cosine schedules of plan B (per epoch) and plan C (per
\* fractional epoch), at the progress the rate was last set for: while
\* progress < warmup_epochs the rate of a group is
\* base_lr * progress / warmup_epochs (so it is 0 at progress 0), and at
\* progress = warmup_epochs it is exactly base_lr.  The progress is pn / pd.
C20_WarmupRamp ==
    LET inB == /\ cfg.regime = "B"
               /\ pc \in {"B_batch", "B_sam_backward1", "B_first_step",
                           "B_sam_pass2", "B_second_step", "B_second_base",
                           "B_zero_grad", "B_backward", "B_base_step",
                           "B_clip", "B_post_step"}
        inC == /\ cfg.regime = "C"
               /\ pc \in {"C_zero_grad", "C_backward", "C_clip",
                           "C_opt_step"}
        pn == IF inB THEN epoch ELSE epoch * cfg.nTrain + step
        pd == IF inB THEN 1 ELSE cfg.nTrain
        w == cfg.warmup_epochs
    IN  (inB \/ inC) =>
          /\ pn < w * pd => /\ lr.branch = "warmup"
                            /\ lr.num * (pd * w) = pn * lr.den
          /\ (pn = 0 /\ w > 0) => lr.num = 0
          /\ pn = w * pd => lr.branch = "cosine" /\ lr.num = 0

\* C21: with warmup_epochs == epochs, adjust_learning_rate raises no
\* division-by-zero error at any progress of [0, epochs], the progress
\* warmup_epochs = epochs included
C21_NoDivisionByZero ==
    cfg.warmup_epochs = cfg.epochs => exc # "ZeroDivisionError"

\* C22: the training scores read after the training pass come from that
\* epoch's training batches only, and the validation scores read after the
\* validation pass from that pass's batches only
C22_ScoresOfOnePass ==
    /\ pc \in {"eval_begin", "eval_batch", "after_eval", "C_history"}
        => /\ train_scores \subseteq {<<"train", epoch>>}
           /\ cfg.nTrain >= 1 => train_scores # {}
    /\ pc = "after_eval"
        => /\ estimator \subseteq {<<"val", epoch>>}
           /\ cfg.nVal >= 1 => estimator # {}
    /\ \A i \in 1..Len(history.train_acc) :
          history.train_acc[i] \subseteq {<<"train", start_epoch + i - 1>>}

C22_Witness ==
    /\ pc = "after_eval" /\ cfg.regime = "B" /\ epoch >= 1
    /\ train_scores = {<<"train", epoch>>}
    /\ estimator = {<<"val", epoch>>}

\* C23: in plan C the history record of an epoch never reads a validation
\* loss or accuracy that has not been assigned, and the validation values
\* it holds come from a validation pass of that same epoch
C23_HistoryReadsThisEpochsValidation ==
    cfg.regime = "C"
    => /\ exc # "UnboundLocalError"
       /\ \A i \in 1..Len(history.val_loss) :
             history.val_loss[i] = <<"val", start_epoch + i - 1>>

\* C24: in plan B the gradients that first_step's perturbation and the
\* parameter updates read hold the backward passes of the current iteration
\* only: nothing computed in an earlier iteration is left in them
C24_NoGradientOfEarlierIteration ==
    (cfg.regime = "B"
        /\ pc \in {"B_first_step", "B_second_base", "B_base_step"})
    => \A p \in Params :
          HasGrad(grad, p) => \A t \in grad[p].src : t[1] = iter

\* C25: in plan A the averaged model saved as swa_model_final_weights.pt
\* has accumulated at least one parameter sample of the trained model
C25_SavedAverageHasSample ==
    (cfg.regime = "A" /\ files["swa_model_final_weights.pt"] # NoFile)
    => files["swa_model_final_weights.pt"].swa.n_averaged >= 1

\* C26: in plan A the weights written as best_validation_weights.pt are
\* those of the model that was validated: the live model before
\* swa_start_epoch, the averaged model from swa_start_epoch on
C26_BestWeightsOfValidatedModel ==
    (cfg.regime = "A" /\ files["best_validation_weights.pt"] # NoFile)
    => files["best_validation_weights.pt"].of
         = IF files["best_validation_weights.pt"].epoch >= cfg.phase_start
           THEN "swa_model" ELSE "model"

\* the learning rate an uninterrupted run uses at this epoch and step: plan
\* A between two iterations, plan B inside the epoch, plan C inside the
\* iteration
UninterruptedRate ==
    IF cfg.regime = "B" THEN AdjustLearningRateB(epoch)
    ELSE IF cfg.regime = "C"
         THEN AdjustLearningRateC(epoch, step, cfg.nTrain)
         ELSE IF epoch < cfg.phase_start
              THEN OneCycleRate(epoch * cfg.nTrain + step)
              ELSE IF epoch = cfg.phase_start
                   THEN OneCycleRate(cfg.phase_start * cfg.nTrain)
                   ELSE SwaRate(epoch - cfg.phase_start)

\* C27: a run resumed from the checkpoint of epoch e uses, at every step of
\* every epoch >= e + 1, the learning rate an uninterrupted run uses at the
\* same epoch and step
C27_ResumedRateAsUninterrupted ==
    (/\ epoch < cfg.epochs
     /\ \/ cfg.regime = "A" /\ pc = "A_batch"
        \/ cfg.regime = "B" /\ pc = "B_batch"
        \/ cfg.regime = "C" /\ pc = "C_zero_grad")
    => lr = UninterruptedRate

\* C28: a run resumed into the same save directory overwrites
\* best_validation_weights.pt only in an epoch whose indicator strictly
\* exceeds the best indicator of the original run and of the resumed run so
\* far
C28_BestNeverDecreasesAcrossResume ==
    [][(/\ saved # NoFile
        /\ files'["best_validation_weights.pt"]
              # files["best_validation_weights.pt"])
       => /\ max_indicator' > saved.best
          /\ max_indicator' > max_indicator]_vars

\* C29: in plan B, SAM.first_step completes without error whenever at least
\* one trainable parameter has a gradient, also when no trainable parameter
\* name contains 'cnn_backbone' and the first parameter group is empty
C29_FirstStepCompletes ==
    [][(pc = "B_first_step" /\ \E p \in Params : HasGrad(grad, p))
       => pc' = "B_sam_pass2"]_vars

\* the maximum of 0 and the indicators of the first n epochs of this run
RunningMax(h, n) == SetMax({0} \cup {h[j] : j \in 1..n})

\* the number of consecutive epochs, ending with epoch n of this run, whose
\* indicator did not strictly exceed the running maximum before them
RECURSIVE StallSince(_, _)
StallSince(h, n) == IF n = 0 \/ h[n] > RunningMax(h, n - 1) THEN 0
                    ELSE 1 + StallSince(h, n - 1)

\* C30: plan A, at the start of every epoch: 0 <= epochs_no_improve <
\* patience, epochs_no_improve is the number of immediately preceding
\* consecutive epochs of this run whose indicator did not strictly exceed the
\* running maximum (a tie is no improvement), and max_indicator is the
\* maximum of 0 and all indicators seen so far
C30_StallCounter ==
    LET h == history.val_acc
    IN  (cfg.regime = "A" /\ pc = "A_epoch_head")
        => /\ 0 <= epochs_no_improve /\ epochs_no_improve < cfg.patience
           /\ epochs_no_improve = StallSince(h, Len(h))
           /\ max_indicator = RunningMax(h, Len(h))

C30_Witness ==
    /\ cfg.regime = "A" /\ pc = "A_epoch_head" /\ epoch < cfg.epochs
    /\ cfg.patience = 2 /\ epochs_no_improve = 1
    /\ history.val_acc = <<1, 1>>
    /\ max_indicator = 1

====
